---- MODULE Spec2Model ----
(***************************************************************************)
(* A model of driver/vm.go: the VM lifecycle operations of the vSphere     *)
(* driver (CreateVM, Clone, Destroy, Configure, PowerOn, PowerOff,         *)
(* WaitForShutdown, CreateSnapshot, AddCdrom), the spec compiler           *)
(* (toConfigSpec) and the device composer (addCdrom, addDisk, addNetwork). *)
(*                                                                         *)
(* One caller runs one operation at a time; pc is its position in the      *)
(* operation's body, one step per remote call or composition step.  The    *)
(* remote endpoint is the environment: every remote call may fail, another *)
(* actor may change the VM's power state, the connection context may be    *)
(* canceled.                                                               *)
(***************************************************************************)
EXTENDS Integers, Sequences, FiniteSets, TLC

----------------------------------------------------------------------------
(* Bounds of the model *)

\* largest WaitForShutdown timeout tried, in seconds
MaxTimeout == 2
\* longest time one remote power-state read takes, in seconds
MaxReadTime == 1
\* largest disk size tried, in KB
MaxDiskKB == 1
\* largest CPU limit tried
MaxCPULimit == 1
\* most snapshots the source VM of a clone has
MaxSnapshot == 2
\* most power-off tasks counted in one sequence of PowerOff calls
MaxPowerOffTasks == 2

(* Program constants *)

\* time.Sleep(1 * time.Second) in WaitForShutdown
PollInterval == 1

\* the clock of a WaitForShutdown call stops here
MaxNow == MaxTimeout + 2 * PollInterval + 2 * MaxReadTime

----------------------------------------------------------------------------
(* Values *)

Nil == "nil"

PowerStates == {"poweredOn", "poweredOff", "suspended"}

\* the connection context of the one Driver
Ctx == "ctx"

NilHandle == [ref |-> 0, ctx |-> "none"]

\* managed object references the remote endpoint hands out for new VMs
NewRefs == {2, 3}

\* faults a remote task submission or a remote task can end with
RemoteFaults == {"InvalidState", "ResourceInUse"}

CtxCanceled == "context canceled"

NoConfig == [none |-> TRUE]
NoSpec == [kind |-> "none"]

----------------------------------------------------------------------------
(* Configuration model: vm.go lines 17-54 *)

CPULimits == 0..MaxCPULimit
CPUReservations == {0, MaxCPULimit + 1}
DiskSizes == (-1)..MaxDiskKB
ControllerTypes == {"scsi", "pvscsi", "bogus"}

HardwareConfigs ==
  [CPUs : {1}, CPUReservation : CPUReservations, CPULimit : CPULimits,
   RAM : {1}, RAMReservation : {0}, RAMReserveAll : {FALSE}]

DiskConfigs ==
  [DiskSizeKB : DiskSizes, ThinProvisioned : {TRUE},
   ControllerType : ControllerTypes]

CreateConfigs ==
  [HardwareConfig : HardwareConfigs, DiskConfig : DiskConfigs,
   Annotation : {""}, Name : {"tpl1"}, Folder : {"f"}, Host : {"h"},
   ResourcePool : {"p"}, Datastore : {"ds"}, GuestOS : {"otherGuest"},
   Network : {"VM Network"}, Force : BOOLEAN]

CloneConfigs ==
  [Name : {"clone1"}, Folder : {"f"}, Host : {"h"}, ResourcePool : {"p"},
   Datastore : {"ds"}, LinkedClone : BOOLEAN]

----------------------------------------------------------------------------
(* Spec compiler *)

\* HardwareConfig.toConfigSpec: every field is copied unit for unit
HardwareToConfigSpec(config) ==
  [kind |-> "ConfigSpec",
   NumCPUs |-> config.CPUs,
   MemoryMB |-> config.RAM,
   CpuAllocation |-> [Reservation |-> config.CPUReservation,
                      Limit |-> config.CPULimit],
   MemoryAllocation |-> [Reservation |-> config.RAMReservation],
   MemoryReservationLockedToMax |-> config.RAMReserveAll,
   Name |-> "", Annotation |-> "", GuestId |-> "",
   DeviceChange |-> <<>>, Files |-> ""]

\* CreateConfig.toConfigSpec: the hardware spec with the identity fields laid over it
CreateToConfigSpec(config) ==
  [HardwareToConfigSpec(config.HardwareConfig) EXCEPT
     !.Name = config.Name,
     !.Annotation = config.Annotation,
     !.GuestId = config.GuestOS]

----------------------------------------------------------------------------
(* Device lists (object.VirtualDeviceList) *)

\* a device: its class, its concrete type, its key, the key of the controller
\* it is attached to (0: none), its unit number on it, its capacity and backing
Device(kind, type, key) ==
  [kind |-> kind, type |-> type, key |-> key, controllerKey |-> 0,
   unit |-> 0, capacityKB |-> 0, thin |-> FALSE, backing |-> ""]

DeviceKeys(l) == {l[i].key : i \in 1..Len(l)}

Min(S) == CHOOSE x \in S : \A y \in S : x <= y

\* devices.NewKey(): one below the least key of the list, starting below -200
NewKey(l) == Min(DeviceKeys(l) \cup {-200}) - 1

IsController(d) == d.kind \in {"ide", "scsi"}

\* devices.Name(device): type and key of a controller
Name(d) == <<d.type, d.key>>

\* the SCSI controller types the device library knows
SCSIControllerTypes == {"lsilogic", "buslogic", "pvscsi", "lsilogic-sas"}

\* devices.CreateSCSIController(name): "" and "scsi" stand for the first type
CreateSCSIController(l, name) ==
  LET type == IF name \in {"", "scsi"} THEN "lsilogic" ELSE name
  IN  IF type \in SCSIControllerTypes
      THEN [device |-> Device("scsi", type, NewKey(l)), err |-> Nil]
      ELSE [device |-> Device("none", "", 0), err |-> "unknown SCSI controller type"]

\* devices.CreateIDEController()
CreateIDEController(l) ==
  [device |-> Device("ide", "ide", NewKey(l)), err |-> Nil]

\* devices.FindDiskController(name): the first controller of the list with that name
FindDiskController(l, name) ==
  LET found == {i \in 1..Len(l) : IsController(l[i]) /\ Name(l[i]) = name}
  IN  IF found = {}
      THEN [device |-> Device("none", "", 0), err |-> "not found"]
      ELSE [device |-> l[Min(found)], err |-> Nil]

\* the devices of the list attached to controller c
Attached(l, c) == {i \in 1..Len(l) : l[i].controllerKey = c.key}

\* a slip: the controller's key is not written to the device
AssignController_NoKey(l, d, c) ==
  [d EXCEPT !.unit = Cardinality(Attached(l, c)),
            !.key = IF d.key = 0 THEN -1 ELSE d.key]

\* devices.AssignController(device, c): the device takes the controller's key
\* and the next unit number; a device without a key gets key -1
AssignController(l, d, c) ==
  [d EXCEPT !.controllerKey = c.key,
            !.unit = Cardinality(Attached(l, c)),
            !.key = IF d.key = 0 THEN -1 ELSE d.key]

----------------------------------------------------------------------------
(* Device composer *)

\* addCdrom: an IDE controller is appended to the list
addCdrom(l) ==
  LET c == CreateIDEController(l)
  IN  IF c.err # Nil
      THEN [devices |-> <<>>, err |-> c.err]
      ELSE [devices |-> Append(l, c.device), err |-> Nil]

\* the disk addDisk builds: a fresh key, a flat backing, the configured capacity
NewDisk(l, config) ==
  [Device("disk", "disk", NewKey(l)) EXCEPT
     !.backing = "persistent",
     !.thin = config.ThinProvisioned,
     !.capacityKB = config.DiskSizeKB]

\* a slip: the size check is dropped
SizeNotImplemented_Never(config) == FALSE

\* the size addDisk refuses
SizeNotImplemented(config) == config.DiskSizeKB = 0

\* a slip: the disk goes to the first controller of the list
DiskController_First(l, device) == FindDiskController(l, Name(l[1]))

\* the controller addDisk attaches the disk to: the one it has just appended,
\* found again by its name
DiskController(l, device) == FindDiskController(l, Name(device))

\* addDisk: a SCSI controller is appended, then the disk bound to it
addDisk(l, config) ==
  LET c == CreateSCSIController(l, config.ControllerType)
  IN  IF c.err # Nil
      THEN [devices |-> <<>>, err |-> c.err]
      ELSE LET l1 == Append(l, c.device)
               controller == DiskController(l1, c.device)
           IN  IF controller.err # Nil
               THEN [devices |-> <<>>, err |-> controller.err]
               ELSE IF SizeNotImplemented(config)
               THEN [devices |-> <<>>, err |-> "not implemented"]
               ELSE LET disk == AssignController(l1, NewDisk(l1, config),
                                                 controller.device)
                    IN  [devices |-> Append(l1, disk), err |-> Nil]

\* addNetwork: the network is looked up, its backing derived, and an ethernet
\* card of the default type appended; lookupErr and backingErr are what the
\* two remote calls returned
addNetwork(l, lookupErr, backingErr) ==
  IF lookupErr # Nil
  THEN [devices |-> <<>>, err |-> lookupErr]
  ELSE IF backingErr # Nil
  THEN [devices |-> <<>>, err |-> backingErr]
  ELSE [devices |-> Append(l, [Device("ethernet", "e1000", -1) EXCEPT
                                 !.backing = "network"]),
        err |-> Nil]

\* devices.ConfigSpec(add): one device change per device, in the list's order
ConfigSpec(l) == [i \in 1..Len(l) |-> [operation |-> "add", device |-> l[i]]]

----------------------------------------------------------------------------
(* State *)

VARIABLES
  pc,         \* the caller's position: "idle", a step of the running operation, "done"
  op,         \* the operation running or last run
  cfg,        \* the operation's argument
  devices,    \* the local device list being composed
  spec,       \* the local createSpec / cloneSpec / confSpec being built
  log,        \* the remote calls and composition steps of this call, in order
  submitted,  \* the remote tasks this call has created, in order
  ret,        \* what the call returned: a handle and an error
  handle,     \* the VM handle the methods are called on
  other,      \* a second caller, at work on the handle of another VM
  power,      \* remote: the VM's power state
  canceled,   \* the connection context is canceled
  cancelAt,   \* history: where the caller was, and when, as the context was canceled
  poSeq,      \* history: the PowerOff calls made in a row
  now,        \* seconds since WaitForShutdown was called
  deadline,   \* when WaitForShutdown's timer fires
  lastRead    \* how long WaitForShutdown's last power-state read took

callVars == <<pc, op, cfg, devices, spec, log, submitted, ret>>
remoteVars == <<power, canceled, cancelAt>>
timeVars == <<now, deadline, lastRead>>
vars == <<pc, op, cfg, devices, spec, log, submitted, ret, handle, other, power,
          canceled, cancelAt, poSeq, now, deadline, lastRead>>

\* where a call is suspended: on a task's result, in WaitForShutdown's loop
TaskWaitPcs ==
  {"create_wait", "clone_wait", "destroy_wait", "configure_wait", "poweron_wait",
   "snapshot_wait", "poweroff_wait", "cdrom_wait"}
WfsPcs == {"wfs_read", "wfs_select"}

\* the second caller between calls; power is the power state of its VM, left
\* the time left until its shutdown timer fires (negative: the deadline is past)
SecondIdle(p) ==
  [pc |-> "idle", op |-> "none", err |-> Nil, power |-> p, left |-> 0]

\* tasks: the power-off tasks the calls have created; succeeded: one of the
\* calls has returned success; after: the running call began after that
NoPoSeq == [tasks |-> 0, succeeded |-> FALSE, after |-> FALSE]

Init ==
  /\ pc = "idle"
  /\ op = "none"
  /\ cfg = NoConfig
  /\ devices = <<>>
  /\ spec = NoSpec
  /\ log = <<>>
  /\ submitted = <<>>
  /\ ret = [handle |-> NilHandle, err |-> Nil]
  /\ handle = [ref |-> 1, ctx |-> Ctx]
  /\ other = SecondIdle("poweredOn")
  /\ power \in PowerStates
  /\ canceled = FALSE
  /\ cancelAt = [pc |-> "none", at |-> 0]
  /\ poSeq = NoPoSeq
  /\ now = 0
  /\ deadline = 0
  /\ lastRead = 0

----------------------------------------------------------------------------
(* Steps shared by the operations *)

\* what a remote call can return: nil or its fault; only the context's error
\* once the context is canceled
\* a slip: the remote calls are made with a context of their own
CtxDone_Background == FALSE

\* the context every remote call is given (d.ctx, vm.driver.ctx) is done
CtxDone == canceled

Errs(fault) == IF CtxDone THEN {CtxCanceled} ELSE {Nil, fault}
TaskErrs == IF CtxDone THEN {CtxCanceled} ELSE {Nil} \cup RemoteFaults

\* a log entry: the call made, the error it returned, the value it returned
LoggedVal(ev, err, val) == Append(log, [ev |-> ev, err |-> err, val |-> val])
Logged(ev, err) == LoggedVal(ev, err, "")

\* a slip: a failed step is tried again
OnError_Retry(at) == at

\* where a step goes when its call returned an error: the operation returns
OnError(at) == "done"

\* a slip: the step's error is dropped on the way out
Fail_NoError(at, err) ==
  /\ pc' = "done"
  /\ ret' = [handle |-> NilHandle, err |-> Nil]

\* if err != nil { return nil, err }
Fail(at, err) ==
  /\ pc' = OnError(at)
  /\ ret' = [handle |-> NilHandle, err |-> err]

\* a call begins: the locals are fresh
Begin(name, config, spec0, first) ==
  /\ pc = "idle"
  /\ op' = name
  /\ cfg' = config
  /\ devices' = <<>>
  /\ spec' = spec0
  /\ log' = <<>>
  /\ submitted' = <<>>
  /\ ret' = [handle |-> NilHandle, err |-> Nil]
  /\ pc' = first
  /\ poSeq' = IF name = "PowerOff"
              THEN [poSeq EXCEPT !.after = poSeq.succeeded]
              ELSE NoPoSeq
  /\ UNCHANGED <<handle, other, remoteVars>>

\* the call has returned to the caller: its locals are gone
Return ==
  /\ pc = "done"
  /\ pc' = "idle"
  /\ op' = "none"
  /\ cfg' = NoConfig
  /\ devices' = <<>>
  /\ spec' = NoSpec
  /\ log' = <<>>
  /\ submitted' = <<>>
  /\ ret' = [handle |-> NilHandle, err |-> Nil]
  /\ now' = 0
  /\ deadline' = 0
  /\ lastRead' = 0
  /\ cancelAt' = IF canceled THEN [pc |-> "idle", at |-> 0] ELSE cancelAt
  /\ UNCHANGED <<handle, other, power, canceled, poSeq>>

\* a lookup of CreateVM or Clone: FindFolder, FindResourcePool, ...
Lookup(at, ev, fault, next) ==
  /\ pc = at
  /\ \E err \in Errs(fault) :
       /\ log' = Logged(ev, err)
       /\ IF err # Nil
          THEN Fail(at, err)
          ELSE pc' = next /\ UNCHANGED ret
  /\ UNCHANGED <<op, cfg, devices, spec, submitted, handle, other, remoteVars, poSeq, timeVars>>

\* the task's method is called on the remote object: a task is created or the
\* call fails
Submit(at, kind, payload, next) ==
  /\ pc = at
  /\ \E err \in TaskErrs :
       /\ log' = Logged(kind, err)
       /\ IF err # Nil
          THEN Fail(at, err) /\ UNCHANGED submitted
          ELSE /\ pc' = next
               /\ submitted' = Append(submitted, [kind |-> kind, spec |-> payload])
               /\ UNCHANGED ret
  /\ UNCHANGED <<op, cfg, devices, spec, handle, other, remoteVars, timeVars>>

----------------------------------------------------------------------------
(* Driver.CreateVM *)

CallCreateVM ==
  \E config \in CreateConfigs :
    /\ Begin("CreateVM", config, CreateToConfigSpec(config), "create_folder")
    /\ UNCHANGED timeVars

CreateFindFolder ==
  Lookup("create_folder", "FindFolder", "folder not found", "create_pool")

CreateFindResourcePool ==
  Lookup("create_pool", "FindResourcePool", "resource pool not found", "create_host")

CreateFindHost ==
  Lookup("create_host", "FindHost", "host not found", "create_datastore")

CreateFindDatastore ==
  Lookup("create_datastore", "FindDatastoreOrDefault", "datastore not found",
         "create_file")

\* a slip: the backing-file check is dropped altogether
SkipFileCheck_Always(config) == TRUE

\* the backing-file check is skipped when Force is set
SkipFileCheck(config) == config.Force

FileExistsError == "File already exists"

\* if !config.Force { if datastore.FileExists(vmxPath) { return nil, error } };
\* exists is what the datastore reports
CreateCheckFile ==
  /\ pc = "create_file"
  /\ IF SkipFileCheck(cfg)
     THEN /\ pc' = "create_cdrom"
          /\ UNCHANGED <<log, ret>>
     ELSE \E exists \in BOOLEAN :
            IF exists
            THEN /\ log' = Logged("FileExists", "exists")
                 /\ Fail("create_file", FileExistsError)
            ELSE /\ log' = Logged("FileExists", Nil)
                 /\ pc' = "create_cdrom"
                 /\ UNCHANGED ret
  /\ UNCHANGED <<op, cfg, devices, spec, submitted, handle, other, remoteVars, poSeq, timeVars>>

\* a composition step of CreateVM: the list is replaced or the step's error returned
Compose(at, ev, r, next) ==
  /\ pc = at
  /\ log' = Logged(ev, r.err)
  /\ IF r.err # Nil
     THEN Fail(at, r.err) /\ UNCHANGED devices
     ELSE pc' = next /\ devices' = r.devices /\ UNCHANGED ret
  /\ UNCHANGED <<op, cfg, spec, submitted, handle, other, remoteVars, poSeq, timeVars>>

CreateAddCdrom ==
  Compose("create_cdrom", "addCdrom", addCdrom(devices), "create_disk")

CreateAddDisk ==
  Compose("create_disk", "addDisk", addDisk(devices, cfg.DiskConfig), "create_network")

CreateAddNetwork ==
  \E lookupErr \in Errs("network not found") :
    \E backingErr \in Errs("no backing") :
      Compose("create_network", "addNetwork",
              addNetwork(devices, lookupErr, backingErr), "create_spec")

\* createSpec.DeviceChange, err = devices.ConfigSpec(add); createSpec.Files = ...
CreateConfigSpec ==
  /\ pc = "create_spec"
  /\ \E err \in {Nil, "bad device"} :
       /\ log' = Logged("ConfigSpec", err)
       /\ IF err # Nil
          THEN Fail("create_spec", err) /\ UNCHANGED spec
          ELSE /\ spec' = [spec EXCEPT !.DeviceChange = ConfigSpec(devices),
                                       !.Files = cfg.Datastore]
               /\ pc' = "create_submit"
               /\ UNCHANGED ret
  /\ UNCHANGED <<op, cfg, devices, submitted, handle, other, remoteVars, poSeq, timeVars>>

\* task, err := folder.folder.CreateVM(d.ctx, createSpec, pool, host)
CreateSubmit ==
  /\ Submit("create_submit", "CreateVM", spec, "create_wait")
  /\ UNCHANGED poSeq

\* a slip: the handle is not bound to the driver
NewVM_Unbound(ref) == [ref |-> ref, ctx |-> "none"]

\* d.NewVM(ref): a handle on the referenced VM, bound to the driver
NewVM(ref) == [ref |-> ref, ctx |-> Ctx]

\* taskInfo, err := task.WaitForResult(d.ctx, nil); return d.NewVM(&vmRef), nil
CreateWait ==
  /\ pc = "create_wait"
  /\ \E err \in TaskErrs :
       IF err # Nil
       THEN /\ log' = Logged("WaitForResult", err)
            /\ Fail("create_wait", err)
       ELSE \E ref \in NewRefs :
              /\ log' = LoggedVal("WaitForResult", Nil, ref)
              /\ ret' = [handle |-> NewVM(ref), err |-> Nil]
              /\ pc' = "done"
  /\ UNCHANGED <<op, cfg, devices, spec, submitted, handle, other, remoteVars, poSeq, timeVars>>

----------------------------------------------------------------------------
(* VirtualMachine.Clone *)

\* what Info("snapshot") can report as the source's current snapshot (0: none)
Snapshots == 0..MaxSnapshot

CallClone ==
  \E config \in CloneConfigs :
    /\ Begin("Clone", config, NoSpec, "clone_folder")
    /\ UNCHANGED timeVars

CloneFindFolder ==
  Lookup("clone_folder", "FindFolder", "folder not found", "clone_pool")

CloneFindResourcePool ==
  Lookup("clone_pool", "FindResourcePool", "resource pool not found", "clone_datastore")

CloneFindDatastore ==
  Lookup("clone_datastore", "FindDatastoreOrDefault", "datastore not found",
         "clone_spec")

\* cloneSpec.Location = relocateSpec; cloneSpec.PowerOn = false
NewCloneSpec(config) ==
  [kind |-> "CloneSpec",
   Location |-> [Pool |-> config.ResourcePool, Datastore |-> config.Datastore,
                 DiskMoveType |-> ""],
   PowerOn |-> FALSE,
   Snapshot |-> 0]

\* a slip: every clone is treated as a linked clone
IsLinkedClone_Always(config) == TRUE

\* config.LinkedClone == true
IsLinkedClone(config) == config.LinkedClone = TRUE

\* a slip: the missing snapshot goes unnoticed
HasNoSnapshot_Never(current) == FALSE

\* tpl.Snapshot == nil
HasNoSnapshot(current) == current = 0

NoSnapshotError == "linked_clone=true, but template has no snapshots"

\* the clone spec is built; a linked clone reads the source's snapshot and
\* fails when there is none
CloneBuildSpec ==
  /\ pc = "clone_spec"
  /\ IF ~IsLinkedClone(cfg)
     THEN /\ spec' = NewCloneSpec(cfg)
          /\ pc' = "clone_submit"
          /\ UNCHANGED <<log, ret>>
     ELSE \E err \in Errs("property read failed") : \E current \in Snapshots :
            IF err # Nil
            THEN /\ log' = Logged("Info", err)
                 /\ Fail("clone_spec", err)
                 /\ UNCHANGED spec
            ELSE /\ log' = LoggedVal("Info", Nil, current)
                 /\ IF HasNoSnapshot(current)
                    THEN Fail("clone_spec", NoSnapshotError) /\ UNCHANGED spec
                    ELSE /\ spec' = [NewCloneSpec(cfg) EXCEPT
                                       !.Location.DiskMoveType = "createNewChildDiskBacking",
                                       !.Snapshot = current]
                         /\ pc' = "clone_submit"
                         /\ UNCHANGED ret
  /\ UNCHANGED <<op, cfg, devices, submitted, handle, other, remoteVars, poSeq, timeVars>>

\* task, err := template.vm.Clone(ctx, folder, config.Name, cloneSpec)
CloneSubmit ==
  /\ Submit("clone_submit", "Clone", spec, "clone_wait")
  /\ UNCHANGED poSeq

\* info, err := task.WaitForResult(ctx, nil); return NewVM(&vmRef), nil
CloneWait ==
  /\ pc = "clone_wait"
  /\ \E err \in TaskErrs :
       IF err # Nil
       THEN /\ log' = Logged("WaitForResult", err)
            /\ Fail("clone_wait", err)
       ELSE \E ref \in NewRefs :
              /\ log' = LoggedVal("WaitForResult", Nil, ref)
              /\ ret' = [handle |-> NewVM(ref), err |-> Nil]
              /\ pc' = "done"
  /\ UNCHANGED <<op, cfg, devices, spec, submitted, handle, other, remoteVars, poSeq, timeVars>>

----------------------------------------------------------------------------
(* Destroy, Configure, PowerOn, CreateSnapshot: one task, submitted and waited for *)

\* _, err = task.WaitForResult(ctx, nil); return err
\* a task that ends well leaves the VM in state target ("": the power state is
\* not the task's business); a wait the context cut short leaves the task on
\* its own, done or not
Wait(at, target) ==
  /\ pc = at
  /\ \E err \in TaskErrs :
       /\ log' = Logged("WaitForResult", err)
       /\ ret' = [handle |-> NilHandle, err |-> err]
       /\ pc' = "done"
       /\ IF target = "" \/ err \in RemoteFaults
          THEN UNCHANGED power
          ELSE IF err = Nil
          THEN power' = target
          ELSE power' \in {power, target}
  /\ UNCHANGED <<op, cfg, devices, spec, submitted, handle, other, canceled, cancelAt, timeVars>>

CallDestroy ==
  /\ Begin("Destroy", NoConfig, NoSpec, "destroy_submit")
  /\ UNCHANGED timeVars

DestroySubmit ==
  /\ Submit("destroy_submit", "Destroy", NoSpec, "destroy_wait")
  /\ UNCHANGED poSeq

DestroyWait ==
  /\ Wait("destroy_wait", "")
  /\ UNCHANGED poSeq

CallConfigure ==
  \E config \in HardwareConfigs :
    /\ Begin("Configure", config, HardwareToConfigSpec(config), "configure_submit")
    /\ UNCHANGED timeVars

ConfigureSubmit ==
  /\ Submit("configure_submit", "Reconfigure", spec, "configure_wait")
  /\ UNCHANGED poSeq

ConfigureWait ==
  /\ Wait("configure_wait", "")
  /\ UNCHANGED poSeq

CallPowerOn ==
  /\ Begin("PowerOn", NoConfig, NoSpec, "poweron_submit")
  /\ UNCHANGED timeVars

PowerOnSubmit ==
  /\ Submit("poweron_submit", "PowerOn", NoSpec, "poweron_wait")
  /\ UNCHANGED poSeq

PowerOnWait ==
  /\ Wait("poweron_wait", "poweredOn")
  /\ UNCHANGED poSeq

\* vm.vm.CreateSnapshot(ctx, name, "", false, false)
SnapshotSpec(name) ==
  [kind |-> "SnapshotSpec", name |-> name, description |-> "",
   memory |-> FALSE, quiesce |-> FALSE]

CallCreateSnapshot ==
  /\ Begin("CreateSnapshot", [name |-> "snap"], SnapshotSpec("snap"), "snapshot_submit")
  /\ UNCHANGED timeVars

CreateSnapshotSubmit ==
  /\ Submit("snapshot_submit", "CreateSnapshot", spec, "snapshot_wait")
  /\ UNCHANGED poSeq

CreateSnapshotWait ==
  /\ Wait("snapshot_wait", "")
  /\ UNCHANGED poSeq

----------------------------------------------------------------------------
(* VirtualMachine.PowerOff *)

CallPowerOff ==
  /\ poSeq.tasks < MaxPowerOffTasks
  /\ Begin("PowerOff", NoConfig, NoSpec, "poweroff_state")
  /\ UNCHANGED timeVars

\* a slip: the power state is read and not looked at
AlreadyOff_Never(state) == FALSE

\* the last power state this call has read, "" before its first read
LastRead ==
  LET reads == {i \in 1..Len(log) : log[i].ev = "PowerState" /\ log[i].err = Nil}
  IN  IF reads = {} THEN "" ELSE log[CHOOSE i \in reads : \A j \in reads : j <= i].val

\* a slip: a power state read once is kept and used again
PowerState_Cached == IF LastRead = "" THEN power ELSE LastRead

\* vm.vm.PowerState(ctx): the power state the remote endpoint holds now
PowerState == power

\* state == types.VirtualMachinePowerStatePoweredOff
AlreadyOff(state) == state = "poweredOff"

\* state, err := vm.vm.PowerState(ctx); if off { return nil }
PowerOffReadState ==
  /\ pc = "poweroff_state"
  /\ \E err \in Errs("property read failed") :
       IF err # Nil
       THEN /\ log' = Logged("PowerState", err)
            /\ Fail("poweroff_state", err)
            /\ UNCHANGED poSeq
       ELSE /\ log' = LoggedVal("PowerState", Nil, PowerState)
            /\ IF AlreadyOff(PowerState)
               THEN /\ ret' = [handle |-> NilHandle, err |-> Nil]
                    /\ pc' = "done"
                    /\ poSeq' = [poSeq EXCEPT !.succeeded = TRUE]
               ELSE /\ pc' = "poweroff_submit"
                    /\ UNCHANGED <<ret, poSeq>>
  /\ UNCHANGED <<op, cfg, devices, spec, submitted, handle, other, remoteVars, timeVars>>

\* task, err := vm.vm.PowerOff(ctx)
PowerOffSubmit ==
  /\ Submit("poweroff_submit", "PowerOff", NoSpec, "poweroff_wait")
  /\ poSeq' = [poSeq EXCEPT !.tasks = IF Len(submitted') > Len(submitted)
                                       THEN @ + 1 ELSE @]

\* _, err = task.WaitForResult(ctx, nil); return err
PowerOffWait ==
  /\ Wait("poweroff_wait", "poweredOff")
  /\ poSeq' = [poSeq EXCEPT !.succeeded = @ \/ ret'.err = Nil]

----------------------------------------------------------------------------
(* VirtualMachine.WaitForShutdown *)

Timeouts == 0..MaxTimeout

TimeoutError == "Timeout while waiting for machine to shut down."

\* the clock moves on by d seconds
Later(d) == IF now + d > MaxNow THEN MaxNow ELSE now + d

\* how long a power-state read can take: no time at all on a context that is done
ReadTimes == IF CtxDone THEN {0} ELSE 0..MaxReadTime

\* a slip: the loop looks at the timer before it reads the power state
WfsLoopStart_Select == "wfs_select"

\* the first statement of the loop's body: the power-state read
WfsLoopStart == "wfs_read"

\* shutdownTimer := time.After(timeout)
CallWaitForShutdown ==
  \E timeout \in Timeouts :
    /\ Begin("WaitForShutdown", [timeout |-> timeout], NoSpec, WfsLoopStart)
    /\ now' = 0
    /\ deadline' = timeout
    /\ lastRead' = 0

\* powerState, err := vm.vm.PowerState(ctx); the read takes d seconds
WfsReadState ==
  /\ pc = "wfs_read"
  /\ \E d \in ReadTimes :
       /\ now' = Later(d)
       /\ lastRead' = d
  /\ \E err \in Errs("property read failed") :
       IF err # Nil
       THEN /\ log' = Logged("PowerState", err)
            /\ Fail("wfs_read", err)
       ELSE /\ log' = LoggedVal("PowerState", Nil, PowerState)
            /\ IF PowerState = "poweredOff"
               THEN /\ ret' = [handle |-> NilHandle, err |-> Nil]
                    /\ pc' = "done"
               ELSE /\ pc' = "wfs_select"
                    /\ UNCHANGED ret
  /\ UNCHANGED <<op, cfg, devices, spec, submitted, handle, other, remoteVars, poSeq, deadline>>

\* the timer's channel holds a value from the deadline on
TimerMayFire(t, d) == t >= d

\* a slip: the select's timer case is never taken
TimerMustFire_Never(t, d) == FALSE

\* past the deadline the select finds the value; at the very deadline the
\* timer and the select race
TimerMustFire(t, d) == t > d

\* select { case <-shutdownTimer: return timeout error; default: time.Sleep(1s) }
WfsSelect ==
  /\ pc = "wfs_select"
  /\ \E fired \in BOOLEAN :
       /\ fired => TimerMayFire(now, deadline)
       /\ TimerMustFire(now, deadline) => fired
       /\ IF fired
          THEN /\ ret' = [handle |-> NilHandle, err |-> TimeoutError]
               /\ pc' = "done"
               /\ UNCHANGED now
          ELSE /\ now' = Later(PollInterval)
               /\ pc' = WfsLoopStart
               /\ UNCHANGED ret
  /\ UNCHANGED <<op, cfg, devices, spec, log, submitted, handle, other, remoteVars, poSeq,
                 deadline, lastRead>>

----------------------------------------------------------------------------
(* VirtualMachine.AddCdrom *)

\* the IDE controller of a running VM, and a cdrom attached to it
LiveIDE == Device("ide", "ide", 200)
LiveCdrom(unit) ==
  [Device("cdrom", "cdrom", 3000 + unit) EXCEPT !.controllerKey = 200, !.unit = unit]

\* what vm.vm.Device(ctx) can return: no IDE controller, a free one, a full one
LiveDeviceLists ==
  {<<>>, <<LiveIDE>>, <<LiveIDE, LiveCdrom(0)>>, <<LiveIDE, LiveCdrom(0), LiveCdrom(1)>>}

\* devices.FindIDEController(""): the first IDE controller with a free slot of its two
FindIDEController(l) ==
  LET free == {i \in 1..Len(l) : l[i].kind = "ide" /\ Cardinality(Attached(l, l[i])) < 2}
  IN  IF free = {}
      THEN [device |-> Device("none", "", 0), err |-> "no available IDE controller"]
      ELSE [device |-> l[Min(free)], err |-> Nil]

\* devices.CreateCdrom(ide), then devices.InsertIso(cdrom, isoPath)
CreateCdrom(l, ide, isoPath) ==
  [AssignController(l, Device("cdrom", "cdrom", 0), ide) EXCEPT !.backing = isoPath]

CallAddCdrom ==
  /\ Begin("AddCdrom", [isoPath |-> "iso"], HardwareToConfigSpec(
             [CPUs |-> 0, CPUReservation |-> 0, CPULimit |-> 0, RAM |-> 0,
              RAMReservation |-> 0, RAMReserveAll |-> FALSE]), "cdrom_device")
  /\ UNCHANGED timeVars

\* devices, err := vm.vm.Device(ctx)
AddCdromDevice ==
  /\ pc = "cdrom_device"
  /\ \E err \in Errs("property read failed") : \E l \in LiveDeviceLists :
       /\ log' = Logged("Device", err)
       /\ IF err # Nil
          THEN Fail("cdrom_device", err) /\ UNCHANGED devices
          ELSE pc' = "cdrom_ide" /\ devices' = l /\ UNCHANGED ret
  /\ UNCHANGED <<op, cfg, spec, submitted, handle, other, remoteVars, poSeq, timeVars>>

\* ide, err := devices.FindIDEController("")
AddCdromFindIDE ==
  /\ pc = "cdrom_ide"
  /\ LET ide == FindIDEController(devices)
     IN  /\ log' = Logged("FindIDEController", ide.err)
         /\ IF ide.err # Nil
            THEN Fail("cdrom_ide", ide.err)
            ELSE pc' = "cdrom_create" /\ UNCHANGED ret
  /\ UNCHANGED <<op, cfg, devices, spec, submitted, handle, other, remoteVars, poSeq, timeVars>>

\* cdrom is created and loaded; confSpec.DeviceChange, err = newDevices.ConfigSpec(add);
\* that err is overwritten by the next assignment before anything reads it
AddCdromCreate ==
  /\ pc = "cdrom_create"
  /\ LET ide == FindIDEController(devices).device
         cdrom == CreateCdrom(devices, ide, cfg.isoPath)
     IN  \E err \in {Nil, "bad device"} :
           /\ log' = Logged("ConfigSpec", err)
           /\ spec' = [spec EXCEPT !.DeviceChange =
                         IF err = Nil THEN ConfigSpec(<<cdrom>>) ELSE <<>>]
           /\ pc' = "cdrom_submit"
  /\ UNCHANGED <<op, cfg, devices, submitted, ret, handle, other, remoteVars, poSeq, timeVars>>

\* task, err := vm.vm.Reconfigure(ctx, confSpec)
AddCdromSubmit ==
  /\ Submit("cdrom_submit", "Reconfigure", spec, "cdrom_wait")
  /\ UNCHANGED poSeq

AddCdromWait ==
  /\ Wait("cdrom_wait", "")
  /\ UNCHANGED poSeq

----------------------------------------------------------------------------
(* The environment *)

\* another actor (another handle, the guest, an administrator) changes the
\* VM's power state
OtherActor ==
  /\ \E p \in PowerStates \ {power} : power' = p
  /\ poSeq' = NoPoSeq
  /\ UNCHANGED <<callVars, handle, other, canceled, cancelAt, timeVars>>

\* the connection context is canceled
Cancel ==
  /\ ~canceled
  /\ canceled' = TRUE
  /\ cancelAt' = [pc |-> pc, at |-> now]
  /\ UNCHANGED <<callVars, handle, other, power, poSeq, timeVars>>

----------------------------------------------------------------------------

Next ==
  \/ CallCreateVM \/ CreateFindFolder \/ CreateFindResourcePool \/ CreateFindHost
  \/ CreateFindDatastore \/ CreateCheckFile \/ CreateAddCdrom \/ CreateAddDisk
  \/ CreateAddNetwork \/ CreateConfigSpec \/ CreateSubmit \/ CreateWait
  \/ CallClone \/ CloneFindFolder \/ CloneFindResourcePool \/ CloneFindDatastore
  \/ CloneBuildSpec \/ CloneSubmit \/ CloneWait
  \/ CallDestroy \/ DestroySubmit \/ DestroyWait
  \/ CallConfigure \/ ConfigureSubmit \/ ConfigureWait
  \/ CallPowerOn \/ PowerOnSubmit \/ PowerOnWait
  \/ CallCreateSnapshot \/ CreateSnapshotSubmit \/ CreateSnapshotWait
  \/ CallPowerOff \/ PowerOffReadState \/ PowerOffSubmit \/ PowerOffWait
  \/ CallWaitForShutdown \/ WfsReadState \/ WfsSelect
  \/ CallAddCdrom \/ AddCdromDevice \/ AddCdromFindIDE \/ AddCdromCreate
  \/ AddCdromSubmit \/ AddCdromWait
  \/ Return \/ OtherActor \/ Cancel

Spec == Init /\ [][Next]_vars

\* a wait for a task's result
TaskWait ==
  \/ CreateWait \/ CloneWait \/ DestroyWait \/ ConfigureWait \/ PowerOnWait
  \/ CreateSnapshotWait \/ PowerOffWait \/ AddCdromWait

\* the caller's own steps are taken: a power-state read returns, the select
\* runs, and a wait on a context that is done returns
FairSpec ==
  /\ Spec
  /\ WF_vars(WfsReadState) /\ WF_vars(WfsSelect)
  /\ WF_vars(canceled /\ TaskWait)

-----------------------------------------------------------------------------
(* Two callers: PowerOn, PowerOff and WaitForShutdown on the handle of a    *)
(* second VM, bound to the same driver and so to the same context, while    *)
(* the first caller is at work.  Requests on one connection run side by     *)
(* side.                                                                    *)

\* a slip: the driver serializes its callers, one lock held for a whole call
Locked_WhileSuspended(otherPc) == otherPc \in TaskWaitPcs \cup WfsPcs

\* VirtualMachine and Driver hold no lock and no method takes one: where the
\* other caller stands never keeps a caller from its next step
Locked(otherPc) == FALSE

SecondOps == {"PowerOn", "PowerOff", "WaitForShutdown"}
SecondFirstPc(name) ==
  CASE name = "PowerOn" -> "poweron_submit"
    [] name = "PowerOff" -> "poweroff_state"
    [] name = "WaitForShutdown" -> WfsLoopStart

\* the time left after d more seconds; how long the deadline is past is not kept
TimeLeft(left, d) == IF left - d < 0 THEN -1 ELSE left - d

SecondFrame == UNCHANGED <<callVars, handle, remoteVars, poSeq, timeVars>>

SecondCall ==
  /\ other.pc = "idle"
  /\ \E name \in SecondOps, timeout \in Timeouts :
       other' = [other EXCEPT !.pc = SecondFirstPc(name), !.op = name, !.err = Nil,
                              !.left = IF name = "WaitForShutdown" THEN timeout ELSE 0]
  /\ SecondFrame

\* task, err := vm.vm.PowerOn(ctx) / vm.vm.PowerOff(ctx)
SecondSubmit ==
  /\ other.pc \in {"poweron_submit", "poweroff_submit"}
  /\ \E err \in TaskErrs :
       other' = IF err # Nil
                THEN [other EXCEPT !.pc = OnError(other.pc), !.err = err]
                ELSE [other EXCEPT !.pc = IF other.op = "PowerOn"
                                          THEN "poweron_wait" ELSE "poweroff_wait"]
  /\ SecondFrame

\* _, err = task.WaitForResult(ctx, nil); return err
SecondWait ==
  /\ other.pc \in {"poweron_wait", "poweroff_wait"}
  /\ \E err \in TaskErrs :
       \E p \in IF err \in RemoteFaults THEN {other.power}
                ELSE IF err = Nil
                THEN {IF other.op = "PowerOn" THEN "poweredOn" ELSE "poweredOff"}
                ELSE {other.power, IF other.op = "PowerOn" THEN "poweredOn" ELSE "poweredOff"} :
         other' = [other EXCEPT !.pc = "done", !.err = err, !.power = p]
  /\ SecondFrame

\* PowerOff: state, err := vm.vm.PowerState(ctx); if off { return nil }
SecondPowerOffReadState ==
  /\ other.pc = "poweroff_state"
  /\ \E err \in Errs("property read failed") :
       other' = IF err # Nil
                THEN [other EXCEPT !.pc = OnError(other.pc), !.err = err]
                ELSE IF AlreadyOff(other.power)
                THEN [other EXCEPT !.pc = "done"]
                ELSE [other EXCEPT !.pc = "poweroff_submit"]
  /\ SecondFrame

\* WaitForShutdown: powerState, err := vm.vm.PowerState(ctx)
SecondWfsReadState ==
  /\ other.pc = "wfs_read"
  /\ \E d \in ReadTimes, err \in Errs("property read failed") :
       other' = IF err # Nil
                THEN [other EXCEPT !.pc = OnError(other.pc), !.err = err, !.left = 0]
                ELSE IF other.power = "poweredOff"
                THEN [other EXCEPT !.pc = "done", !.left = 0]
                ELSE [other EXCEPT !.pc = "wfs_select", !.left = TimeLeft(other.left, d)]
  /\ SecondFrame

\* WaitForShutdown: select { case <-shutdownTimer: ...; default: time.Sleep(1s) }
SecondWfsSelect ==
  /\ other.pc = "wfs_select"
  /\ \E fired \in BOOLEAN :
       /\ fired => TimerMayFire(0, other.left)
       /\ TimerMustFire(0, other.left) => fired
       /\ other' = IF fired
                   THEN [other EXCEPT !.pc = "done", !.err = TimeoutError, !.left = 0]
                   ELSE [other EXCEPT !.pc = WfsLoopStart,
                                      !.left = TimeLeft(other.left, PollInterval)]
  /\ SecondFrame

SecondReturn ==
  /\ other.pc = "done"
  /\ other' = SecondIdle(other.power)
  /\ SecondFrame

\* the guest of the second VM shuts down, or someone starts it
SecondOtherActor ==
  /\ \E p \in {"poweredOn", "poweredOff"} \ {other.power} :
       other' = [other EXCEPT !.power = p]
  /\ SecondFrame

\* a step of the first caller's PowerOn, PowerOff or WaitForShutdown
FirstStep ==
  /\ ~Locked(other.pc)
  /\ \/ PowerOnSubmit \/ PowerOnWait
     \/ PowerOffReadState \/ PowerOffSubmit \/ PowerOffWait
     \/ WfsReadState \/ WfsSelect

\* a step of the second caller's call
SecondStep ==
  /\ ~Locked(pc)
  /\ \/ SecondSubmit \/ SecondWait \/ SecondPowerOffReadState
     \/ SecondWfsReadState \/ SecondWfsSelect

\* the first VM changes its power state through the first caller's own calls,
\* the second one through the second caller's and through its guest
ConcNext ==
  \/ CallPowerOn \/ CallPowerOff \/ CallWaitForShutdown \/ FirstStep \/ Return
  \/ SecondCall \/ SecondStep \/ SecondReturn
  \/ SecondOtherActor \/ Cancel

ConcSpec == Init /\ [][ConcNext]_vars

----------------------------------------------------------------------------
(* Reading the log *)

Done(name) == pc = "done" /\ op = name

\* the positions of the log where ev was called
Events(ev) == {i \in 1..Len(log) : log[i].ev = ev}
Called(ev) == Events(ev) # {}

\* every call of a comes before every call of b
Precedes(a, b) == \A j \in Events(b) : \E i \in Events(a) : i < j

\* the remote methods that create a task
TaskMethods ==
  {"CreateVM", "Clone", "Destroy", "Reconfigure", "PowerOn", "PowerOff", "CreateSnapshot"}

\* the call returned an error and no handle
ReturnedError(err) ==
  pc = "done" /\ ret.err = err /\ ret.handle = NilHandle

\* the devices of a submitted device-change set
Batch(task) == [i \in 1..Len(task.spec.DeviceChange) |-> task.spec.DeviceChange[i].device]

ControllerKeys(l) == {l[i].key : i \in {k \in 1..Len(l) : IsController(l[k])}}

----------------------------------------------------------------------------
(* C1: CreateVM with Force=false, told by the datastore that                *)
(* <Name>/<Name>.vmx exists, returns an error and a nil handle and submits  *)
(* no create task; without Force the file check comes before the create     *)
(* task is submitted; with Force=true the check is not made and an existing *)
(* file never ends the call.                                                *)
C1_FileCollision ==
  op = "CreateVM" =>
    /\ (~cfg.Force /\ \E i \in Events("FileExists") : log[i].err = "exists") =>
         /\ ReturnedError(FileExistsError)
         /\ submitted = <<>>
         /\ ~Called("CreateVM")
    /\ (~cfg.Force /\ Called("CreateVM")) =>
         /\ Called("FileExists")
         /\ Precedes("FileExists", "CreateVM")
    /\ cfg.Force => ~Called("FileExists") /\ ret.err # FileExistsError

C1_Witness ==
  /\ Done("CreateVM") /\ ~cfg.Force
  /\ log[Len(log)] = [ev |-> "FileExists", err |-> "exists", val |-> ""]
  /\ ret.err = FileExistsError

\* with Force the create task is submitted although the file may exist
C1_WitnessForce ==
  Done("CreateVM") /\ cfg.Force /\ Len(submitted) = 1 /\ ret.err = Nil

----------------------------------------------------------------------------
(* C2: Clone with LinkedClone=true on a source without a snapshot returns   *)
(* an error and a nil handle and submits no clone task; the snapshot is     *)
(* read before the clone task is submitted, and read once: the failure is   *)
(* not retried.                                                             *)
C2_LinkedCloneNeedsSnapshot ==
  (op = "Clone" /\ cfg.LinkedClone) =>
    /\ (\E i \in Events("Info") : log[i].err = Nil /\ log[i].val = 0) =>
         /\ ReturnedError(NoSnapshotError)
         /\ submitted = <<>>
         /\ ~Called("Clone")
         /\ log[Len(log)].ev = "Info"
    /\ Cardinality(Events("Info")) <= 1
    /\ Called("Clone") => Called("Info") /\ Precedes("Info", "Clone")

C2_Witness ==
  /\ Done("Clone") /\ cfg.LinkedClone
  /\ log[Len(log)] = [ev |-> "Info", err |-> Nil, val |-> 0]
  /\ ret.err = NoSnapshotError

----------------------------------------------------------------------------
(* C3, as claimed: in a sequence of PowerOff calls on one VM, no other      *)
(* actor changing its power state, at most one power-off task is submitted. *)
C3_AtMostOneTask == poSeq.tasks <= 1

(* C3, amended: PowerOff reads the power state first; if it reads           *)
(* poweredOff the call returns success and submits no power-off task.  In   *)
(* a sequence of PowerOff calls with no other actor changing the power      *)
(* state, a call made after one that returned success submits no task, and  *)
(* returns success unless its power-state read fails.                       *)
C3_PowerOffIdempotent ==
  op = "PowerOff" =>
    /\ Called("PowerOff") =>
         log[1].ev = "PowerState" /\ log[1].err = Nil /\ log[1].val # "poweredOff"
    /\ (Called("PowerState") /\ log[1].err = Nil /\ log[1].val = "poweredOff") =>
         /\ pc = "done" /\ ret.err = Nil
         /\ submitted = <<>> /\ ~Called("PowerOff")
    /\ poSeq.after =>
         /\ submitted = <<>> /\ ~Called("PowerOff")
         /\ pc = "done" => (ret.err = Nil \/ log[1].err # Nil)

C3_Witness ==
  /\ Done("PowerOff") /\ poSeq.after /\ poSeq.tasks = 1
  /\ ret.err = Nil /\ submitted = <<>>

----------------------------------------------------------------------------
(* C4: WaitForShutdown ends whenever its power-state reads return.  It      *)
(* never returns success unless a read returned poweredOff; when every read *)
(* succeeds and none returns poweredOff it returns the timeout error, not   *)
(* before the deadline and at most one poll interval plus one power-state   *)
(* read after it.                                                          *)
C4_Bounded ==
  op = "WaitForShutdown" =>
    /\ pc = "wfs_read" => now <= deadline + PollInterval
    /\ pc = "wfs_select" => now <= deadline + PollInterval + lastRead
    /\ pc = "done" =>
         /\ ret.err = Nil =>
              log[Len(log)] = [ev |-> "PowerState", err |-> Nil, val |-> "poweredOff"]
         /\ (\A i \in 1..Len(log) : log[i].err = Nil /\ log[i].val # "poweredOff") =>
              /\ ret.err = TimeoutError
              /\ now >= deadline
              /\ now <= deadline + PollInterval + lastRead

C4_Terminates ==
  (op = "WaitForShutdown" /\ pc \in {"wfs_read", "wfs_select"}) ~> (pc = "done")

C4_WaitForShutdownEnds == []C4_Bounded /\ C4_Terminates

\* the latest return: a poll interval and a slow read past the deadline
C4_Witness ==
  /\ Done("WaitForShutdown") /\ ret.err = TimeoutError
  /\ lastRead = MaxReadTime
  /\ now = deadline + PollInterval + lastRead

----------------------------------------------------------------------------
(* C5, as claimed: addDisk with DiskSizeKB = 0 fails with "not implemented" *)
(* and CreateVM returns that error.                                        *)
C5_AlwaysNotImplemented ==
  (op = "CreateVM" /\ cfg.DiskConfig.DiskSizeKB = 0) =>
    \A i \in Events("addDisk") :
      log[i].err = "not implemented" /\ ret.err = "not implemented"

(* C5, amended: addDisk with DiskSizeKB = 0 fails and appends no disk       *)
(* device: with "not implemented" when the controller type is one the       *)
(* device library knows, with the library's error for the controller type   *)
(* otherwise (the controller is created before the size is looked at).      *)
(* CreateVM returns that error and submits no create task.                  *)
C5_ZeroSizeDisk ==
  (op = "CreateVM" /\ cfg.DiskConfig.DiskSizeKB = 0) =>
    /\ \A i \in 1..Len(devices) : devices[i].kind # "disk"
    /\ submitted = <<>> /\ ~Called("CreateVM")
    /\ \A i \in Events("addDisk") :
         /\ log[i].err =
              IF CreateSCSIController(<<>>, cfg.DiskConfig.ControllerType).err = Nil
              THEN "not implemented"
              ELSE "unknown SCSI controller type"
         /\ ReturnedError(log[i].err)
         /\ i = Len(log)

C5_Witness ==
  /\ Done("CreateVM") /\ cfg.DiskConfig.DiskSizeKB = 0
  /\ log[Len(log)].ev = "addDisk"
  /\ ret.err = "not implemented"

----------------------------------------------------------------------------
(* C6, as claimed: addDisk fails for every sizeKB <= 0, and every disk of   *)
(* a device-change set CreateVM submits has CapacityInKB > 0.               *)
C6_PositiveDiskSize ==
  op = "CreateVM" =>
    /\ cfg.DiskConfig.DiskSizeKB <= 0 =>
         \A i \in Events("addDisk") : log[i].err # Nil
    /\ \A t \in 1..Len(submitted) : \A k \in 1..Len(Batch(submitted[t])) :
         Batch(submitted[t])[k].kind = "disk" => Batch(submitted[t])[k].capacityKB > 0

----------------------------------------------------------------------------
(* C7, as claimed: a HardwareConfig with CPU limit 0 compiles to a spec     *)
(* whose CPU allocation limit is an explicit "unlimited", not the number 0. *)
C7_ZeroLimitIsUnlimited ==
  (op = "Configure" /\ cfg.CPULimit = 0) => spec.CpuAllocation.Limit # 0

----------------------------------------------------------------------------
(* C8, as claimed: in every device-change set submitted, by CreateVM and by *)
(* AddCdrom, each disk or optical device references a controller that is    *)
(* in the same set.                                                        *)
AttachedInBatch(l) ==
  \A k \in 1..Len(l) :
    l[k].kind \in {"disk", "cdrom"} => l[k].controllerKey \in ControllerKeys(l)

C8_ControllerInBatch ==
  \A t \in 1..Len(submitted) :
    submitted[t].kind \in {"CreateVM", "Reconfigure"} /\ op \in {"CreateVM", "AddCdrom"}
      => AttachedInBatch(Batch(submitted[t]))

(* C8, amended: in every device-change set CreateVM submits, each disk or   *)
(* optical device references a controller that is in the same set.  The     *)
(* set AddCdrom submits holds at most the optical device alone, attached to *)
(* an IDE controller of the VM's own device list as read in that call;      *)
(* without an IDE controller with a free slot AddCdrom fails before it      *)
(* submits a task.                                                         *)
C8_ControllerKnown ==
  /\ op = "CreateVM" =>
       \A t \in 1..Len(submitted) : AttachedInBatch(Batch(submitted[t]))
  /\ op = "AddCdrom" =>
       /\ \A t \in 1..Len(submitted) :
            LET l == Batch(submitted[t])
            IN  /\ Len(l) <= 1
                /\ \A k \in 1..Len(l) :
                     /\ l[k].kind = "cdrom"
                     /\ \E i \in 1..Len(devices) :
                          devices[i].kind = "ide" /\ devices[i].key = l[k].controllerKey
       /\ (Called("FindIDEController") /\ FindIDEController(devices).err # Nil) =>
            /\ ReturnedError("no available IDE controller")
            /\ ~Called("Reconfigure")

C8_Witness ==
  /\ op = "CreateVM" /\ Len(submitted) = 1
  /\ \E k \in 1..Len(Batch(submitted[1])) : Batch(submitted[1])[k].kind = "disk"

\* AddCdrom has submitted an optical device whose controller is the VM's own
C8_WitnessCdrom ==
  /\ op = "AddCdrom" /\ Len(submitted) = 1
  /\ Len(Batch(submitted[1])) = 1

----------------------------------------------------------------------------
(* C9: a CreateVM that succeeds has composed, in this order, an IDE         *)
(* controller, a SCSI controller, a disk and a network adapter; every       *)
(* attached device comes after its controller in the list; the disk is      *)
(* attached to the SCSI controller of the same call, never to the IDE one;  *)
(* the list is what was submitted.                                         *)
C9_DeviceOrder ==
  op = "CreateVM" =>
    /\ \A j \in 1..Len(devices) :
         devices[j].controllerKey # 0 =>
           \E i \in 1..(j - 1) :
             /\ devices[i].kind = "scsi"
             /\ devices[i].key = devices[j].controllerKey
    /\ \A i, j \in 1..Len(devices) : i # j => devices[i].key # devices[j].key
    /\ (pc = "done" /\ ret.err = Nil) =>
         /\ [i \in 1..Len(devices) |-> devices[i].kind] =
              <<"ide", "scsi", "disk", "ethernet">>
         /\ devices[3].controllerKey = devices[2].key
         /\ devices[3].controllerKey # devices[1].key
         /\ Len(submitted) = 1
         /\ Batch(submitted[1]) = devices

C9_Witness ==
  /\ Done("CreateVM") /\ ret.err = Nil
  /\ Len(devices) = 4 /\ devices[3].kind = "disk"

----------------------------------------------------------------------------
(* C10: no mutating operation retries.  A call of CreateVM, Clone, Destroy, *)
(* Configure, PowerOn, PowerOff, CreateSnapshot or AddCdrom calls a         *)
(* task-creating remote method at most once and waits at most once; when    *)
(* the submission or the task fails, that is the call's last remote call    *)
(* and its error is what the call returns.                                  *)
SubmitsAndWaits ==
  {i \in 1..Len(log) : log[i].ev \in TaskMethods \cup {"WaitForResult"}}

C10_NoRetry ==
  op \in {"CreateVM", "Clone", "Destroy", "Configure", "PowerOn", "PowerOff",
          "CreateSnapshot", "AddCdrom"} =>
    /\ Cardinality({i \in 1..Len(log) : log[i].ev \in TaskMethods}) <= 1
    /\ Cardinality(Events("WaitForResult")) <= 1
    /\ Len(submitted) <= 1
    /\ \A i \in SubmitsAndWaits :
         log[i].err # Nil =>
           /\ i = Len(log)
           /\ pc = "done"
           /\ ret.err = log[i].err
           /\ ret.handle = NilHandle

C10_Witness ==
  /\ pc = "done" /\ op = "PowerOn"
  /\ Len(submitted) = 1
  /\ log[Len(log)].ev = "WaitForResult"
  /\ ret.err \in RemoteFaults

----------------------------------------------------------------------------
(* C11, as claimed: in AddCdrom an error of building the device-change set  *)
(* is fatal: AddCdrom returns it and submits no reconfigure task.           *)
C11_ConfigSpecErrorFatal ==
  op = "AddCdrom" =>
    \A i \in Events("ConfigSpec") :
      log[i].err # Nil =>
        /\ i = Len(log)
        /\ ReturnedError(log[i].err)
        /\ ~Called("Reconfigure")
        /\ submitted = <<>>

----------------------------------------------------------------------------
(* C13, as claimed: every hardware spec Configure or CreateVM submits has   *)
(* CPU reservation <= CPU limit whenever the limit is > 0.                  *)
C13_ReservationWithinLimit ==
  op \in {"Configure", "CreateVM"} =>
    \A t \in 1..Len(submitted) :
      submitted[t].spec.CpuAllocation.Limit > 0 =>
        submitted[t].spec.CpuAllocation.Reservation
          <= submitted[t].spec.CpuAllocation.Limit

----------------------------------------------------------------------------
(* C14: the clone spec Clone submits has PowerOn = false.  For a linked     *)
(* clone its disk-move-type is createNewChildDiskBacking and its snapshot   *)
(* is the source's current snapshot as this call read it; for any other     *)
(* clone neither is set and the source's snapshot is never read.            *)
C14_CloneSpec ==
  op = "Clone" =>
    /\ ~cfg.LinkedClone => ~Called("Info")
    /\ \A t \in 1..Len(submitted) :
         LET cs == submitted[t].spec
         IN  /\ cs.kind = "CloneSpec"
             /\ cs.PowerOn = FALSE
             /\ cfg.LinkedClone =>
                  /\ cs.Location.DiskMoveType = "createNewChildDiskBacking"
                  /\ cs.Snapshot # 0
                  /\ \E i \in Events("Info") :
                       log[i].err = Nil /\ log[i].val = cs.Snapshot
             /\ ~cfg.LinkedClone =>
                  /\ cs.Location.DiskMoveType = ""
                  /\ cs.Snapshot = 0

C14_Witness ==
  /\ op = "Clone" /\ cfg.LinkedClone /\ Len(submitted) = 1
  /\ submitted[1].spec.Snapshot = MaxSnapshot

\* a full clone has been submitted without a look at the snapshots
C14_WitnessFull ==
  op = "Clone" /\ ~cfg.LinkedClone /\ Len(submitted) = 1

----------------------------------------------------------------------------
(* C16: CreateVM goes through the folder, resource pool, host and datastore *)
(* lookups, the backing-file check (unless Force), the IDE-controller, disk *)
(* and network-adapter steps and the device-change set, in this order, and  *)
(* only then submits the create task.  A step that fails is the call's      *)
(* last: CreateVM returns its error and a nil handle, and no create task    *)
(* is submitted.                                                           *)
CreateSteps(force) ==
  <<"FindFolder", "FindResourcePool", "FindHost", "FindDatastoreOrDefault">>
  \o (IF force THEN <<>> ELSE <<"FileExists">>)
  \o <<"addCdrom", "addDisk", "addNetwork", "ConfigSpec", "CreateVM", "WaitForResult">>

C16_CreateOrder ==
  op = "CreateVM" =>
    LET steps == CreateSteps(cfg.Force)
    IN  /\ Len(log) <= Len(steps)
        /\ \A i \in 1..Len(log) :
             /\ log[i].ev = steps[i]
             /\ log[i].err # Nil =>
                  /\ i = Len(log)
                  /\ ReturnedError(IF log[i].ev = "FileExists"
                                   THEN FileExistsError ELSE log[i].err)
                  /\ log[i].ev # "WaitForResult" => submitted = <<>>
        /\ submitted # <<>> => Called("CreateVM")

C16_Witness ==
  /\ Done("CreateVM") /\ ~cfg.Force
  /\ Len(log) = 8
  /\ log[8].ev = "addNetwork" /\ ret.err = "network not found"

\* the whole sequence has run
C16_WitnessAll ==
  Done("CreateVM") /\ ~cfg.Force /\ Len(log) = 11 /\ ret.err = Nil

-----------------------------------------------------------------------------
(* C12: when the context is canceled while a task wait or WaitForShutdown   *)
(* is in flight, the call makes no further remote call but the one in      *)
(* flight, returns an error and no handle, a task wait returns the         *)
(* cancellation error, WaitForShutdown returns no later than one poll      *)
(* interval after the cancellation, and the call does return.              *)
CanceledInFlight == canceled /\ cancelAt.pc \in TaskWaitPcs \cup WfsPcs

C12_Aborted ==
  CanceledInFlight =>
    /\ pc \in {cancelAt.pc, "done"} \cup (IF cancelAt.pc \in WfsPcs THEN WfsPcs ELSE {})
    /\ pc = "done" => (ret.err # Nil /\ ret.handle = NilHandle)
    /\ (pc = "done" /\ cancelAt.pc \in TaskWaitPcs) =>
         (ret.err = CtxCanceled /\ log[Len(log)] = [ev |-> "WaitForResult", err |-> CtxCanceled, val |-> ""])
    /\ (pc = "done" /\ cancelAt.pc \in WfsPcs) => ret.err \in {CtxCanceled, TimeoutError}
    /\ cancelAt.pc \in WfsPcs => now <= cancelAt.at + PollInterval

C12_Returns == CanceledInFlight ~> (pc = "done")

C12_CancelAborts == []C12_Aborted /\ C12_Returns

\* canceled during the sleep: the next read, a poll interval later, fails
C12_Witness ==
  /\ Done("WaitForShutdown") /\ ret.err = CtxCanceled
  /\ cancelAt.pc = "wfs_select" /\ cancelAt.at > 0
  /\ now = cancelAt.at + PollInterval

C12_WitnessTask ==
  /\ Done("CreateVM") /\ canceled /\ cancelAt.pc = "create_wait"
  /\ ret.err = CtxCanceled /\ Len(submitted) = 1

-----------------------------------------------------------------------------
(* C17: no step of any operation changes the handle; a PowerOff call begins *)
(* with a power-state read and a WaitForShutdown iteration is one, each     *)
(* read is a remote call of its own, and a read that succeeds returns the   *)
(* power state the remote endpoint holds at that moment, whoever set it.    *)
ReadPcs == {"poweroff_state", "wfs_read"}

C17_Step ==
  /\ handle' = handle
  /\ (pc = "idle" /\ op' = "PowerOff") => pc' = "poweroff_state"
  /\ (pc = "idle" /\ op' = "WaitForShutdown") => pc' = "wfs_read"
  /\ (pc = "wfs_select" /\ pc' # pc) =>
       \/ pc' = "wfs_read" /\ log' = log
       \/ pc' = "done" /\ ret'.err = TimeoutError
  /\ (pc' = "poweroff_submit" /\ pc' # pc) => pc = "poweroff_state"
  /\ (pc \in ReadPcs /\ pc' # pc) =>
       /\ Len(log') = Len(log) + 1
       /\ SubSeq(log', 1, Len(log)) = log
       /\ log'[Len(log')].ev = "PowerState"
       /\ log'[Len(log')].err = Nil => log'[Len(log')].val = power

C17_NoCache == [][C17_Step]_vars

\* the VM is powered off by another actor between two polls, and the second
\* poll sees it
C17_Witness ==
  /\ Done("WaitForShutdown") /\ ret.err = Nil
  /\ Len(log) >= 2
  /\ log[1] = [ev |-> "PowerState", err |-> Nil, val |-> "poweredOn"]
  /\ log[Len(log)] = [ev |-> "PowerState", err |-> Nil, val |-> "poweredOff"]
  /\ power = "poweredOff"

-----------------------------------------------------------------------------
(* C18: WaitForShutdown reads the power state before it looks at the timer: *)
(* the select is reached, and the call returns, only after a read; it      *)
(* returns success exactly when its last read returned poweredOff, however  *)
(* late that read was; a failing read is the last one and its error, not    *)
(* the timeout error, is what the call returns; the timeout error follows   *)
(* a read that succeeded with another state, at or after the deadline.      *)
PoweredOffRead == [ev |-> "PowerState", err |-> Nil, val |-> "poweredOff"]

C18_ReadBeforeTimeout ==
  op = "WaitForShutdown" =>
    /\ pc \in {"wfs_select", "done"} => Len(log) >= 1
    /\ \A i \in 1..Len(log) :
         /\ log[i].ev = "PowerState"
         /\ (log[i].err # Nil \/ log[i] = PoweredOffRead) => (i = Len(log) /\ pc = "done")
         /\ log[i].err # Nil => (ret.err = log[i].err /\ ret.err # TimeoutError)
    /\ pc = "done" =>
         /\ ret.err = Nil <=> log[Len(log)] = PoweredOffRead
         /\ ret.err = TimeoutError =>
              /\ log[Len(log)].err = Nil /\ log[Len(log)] # PoweredOffRead
              /\ now >= deadline

\* a read begun after the deadline finds the VM powered off: success
C18_Witness ==
  /\ Done("WaitForShutdown") /\ ret.err = Nil
  /\ now - lastRead > deadline
  /\ Len(log) >= 2

\* timeout 0: the read is made all the same, and it can fail
C18_WitnessZero ==
  /\ Done("WaitForShutdown") /\ cfg.timeout = 0
  /\ Len(log) = 1 /\ log[1].err = "property read failed" /\ ret.err = log[1].err

-----------------------------------------------------------------------------
(* C19: CreateVM and Clone return either a handle or an error, never both   *)
(* and never neither.  No handle exists before the return; a handle is      *)
(* returned only when every step succeeded, the one task that was submitted *)
(* reported success last, and the handle is bound to the identity in that   *)
(* task's result and to the context of the driver.                          *)
C19_HandleXorError ==
  op \in {"CreateVM", "Clone"} =>
    /\ pc # "done" => ret = [handle |-> NilHandle, err |-> Nil]
    /\ pc = "done" =>
         /\ (ret.handle # NilHandle) # (ret.err # Nil)
         /\ ret.handle # NilHandle =>
              /\ Len(submitted) = 1
              /\ submitted[1].kind = op
              /\ log[Len(log)].ev = "WaitForResult" /\ log[Len(log)].err = Nil
              /\ ret.handle.ref = log[Len(log)].val
              /\ ret.handle.ctx = handle.ctx
              /\ \A i \in 1..Len(log) : log[i].err # Nil => log[i].ev = "FileExists"
         /\ (\E i \in 1..Len(log) : log[i].err # Nil /\ log[i].ev # "FileExists") =>
              (ret.handle = NilHandle /\ ret.err # Nil)

C19_Witness ==
  /\ Done("Clone") /\ ret.err = Nil
  /\ ret.handle = [ref |-> 3, ctx |-> Ctx]
  /\ log[Len(log)].val = 3

C19_WitnessCreate ==
  /\ Done("CreateVM") /\ ret.err = Nil /\ ret.handle.ref = 2 /\ ret.handle.ctx = Ctx

C19_WitnessTaskFails ==
  /\ Done("CreateVM") /\ ret.handle = NilHandle /\ ret.err \in RemoteFaults
  /\ log[Len(log)].ev = "WaitForResult"

-----------------------------------------------------------------------------
(* C15: with two callers at work on the handles of two VMs, a caller that   *)
(* is in a call can always take its next step while the other is suspended  *)
(* on a task or in WaitForShutdown; a step of one caller changes nothing    *)
(* that belongs to the other; and a caller whose steps are taken completes  *)
(* its call even if the other stays suspended for ever.                     *)
FirstSuspended == pc \in TaskWaitPcs \cup WfsPcs
SecondSuspended == other.pc \in TaskWaitPcs \cup WfsPcs
FirstInCall == pc \notin {"idle", "done"}
SecondInCall == other.pc \notin {"idle", "done"}

C15_NeverBlocked ==
  /\ (FirstSuspended /\ SecondInCall) => ENABLED SecondStep
  /\ (FirstSuspended /\ other.pc = "idle") => ENABLED SecondCall
  /\ (SecondSuspended /\ FirstInCall) => ENABLED FirstStep
  /\ (SecondSuspended /\ pc = "idle") => ENABLED CallPowerOn

C15_NothingShared ==
  /\ (other' # other) => UNCHANGED <<callVars, handle, power, poSeq, timeVars>>
  /\ (<<callVars, power, timeVars>>' # <<callVars, power, timeVars>>) => other' = other

C15_Completes ==
  /\ WF_vars(SecondStep) => (SecondInCall ~> other.pc = "done")
  /\ WF_vars(FirstStep) => (FirstInCall ~> pc = "done")

C15_Independent == []C15_NeverBlocked /\ [][C15_NothingShared]_vars /\ C15_Completes

\* the second caller has powered its VM off, start to end, while the first
\* caller's WaitForShutdown is at its select
C15_Witness ==
  /\ op = "WaitForShutdown" /\ pc = "wfs_select" /\ Len(log) = 1
  /\ other.pc = "done" /\ other.op = "PowerOff" /\ other.err = Nil
  /\ other.power = "poweredOff"

\* and the other way round
C15_WitnessSecond ==
  /\ other.op = "WaitForShutdown" /\ other.pc = "wfs_select"
  /\ Done("PowerOn") /\ ret.err = Nil /\ power = "poweredOn"

====
